---- MODULE Spec2Model ----
(***************************************************************************)
(* A model of PostgresDatabase (src/PostgresDB2.py) and of the two scripts *)
(* that drive it (src/testRun.py, src/testAgain.py).                       *)
(*                                                                         *)
(* Python strings are sequences of one-character strings, so that quoting, *)
(* escaping and the server's reading of a literal are computed and not     *)
(* assumed.  A Python value is a tagged record, a values mapping is the    *)
(* sequence of its <<key, value>> pairs in insertion order, a table row is *)
(* the tuple of its values in the order of the table's columns.            *)
(***************************************************************************)
EXTENDS Integers, Sequences, FiniteSets, TLC

VARIABLES
    strType,                   \* data_type the live schema reports for the string columns
    localFiles,                \* the local files that exist (os.path.isfile)
    committed,                 \* durable rows of each table, in insertion order
    tx,                        \* rows inserted by the open transaction, not yet durable
    image_id_seq,              \* last value of the serial behind test_images.image_id
    tmpTables,                 \* durable temporary join tables: <<name, columns, rows>>
    uncommitted_image_paths,   \* self.uncommitted_image_paths
    join_filter_default,       \* the default list object of join_and_download_data's filter_sql
    records,                   \* the rows most recently handed to the export
    outFiles,                  \* files and directories written under the output path
    testOutput,                \* the records appended to testOutput.txt
    calls,                     \* number of operations the caller has made
    last                       \* the most recent operation, its arguments and its outcome

vars == <<strType, localFiles, committed, tx, image_id_seq, tmpTables,
          uncommitted_image_paths, join_filter_default, records, outFiles,
          testOutput, calls, last>>

(***************************************************************************)
(* Bounds of the model.                                                    *)
(***************************************************************************)
MaxOps == 3
MaxStrLen == 2
MaxQueue == 3
MaxRecords == 3

(***************************************************************************)
(* Python values.                                                          *)
(***************************************************************************)
PyInt(n) == [t |-> "int", n |-> n, s |-> <<>>]
PyStr(s) == [t |-> "str", n |-> 0, s |-> s]
PyBin(s) == [t |-> "bin", n |-> 0, s |-> s]
PyNone == [t |-> "null", n |-> 0, s |-> <<>>]

Quote == "'"
DigitChars == <<"0", "1", "2", "3", "4", "5", "6", "7", "8", "9">>

RECURSIVE IntToStr(_)
IntToStr(n) ==
    IF n < 10 THEN <<DigitChars[n + 1]>>
    ELSE IntToStr(n \div 10) \o <<DigitChars[(n % 10) + 1]>>

DigitValue(c) == (CHOOSE i \in 1..10 : DigitChars[i] = c) - 1

RECURSIVE StrToInt(_)
StrToInt(s) ==
    IF Len(s) = 0 THEN 0
    ELSE 10 * StrToInt(SubSeq(s, 1, Len(s) - 1)) + DigitValue(s[Len(s)])

\* val.replace("'", "''")
RECURSIVE EscapeQuotes(_)
EscapeQuotes(s) ==
    IF Len(s) = 0 THEN <<>>
    ELSE (IF Head(s) = Quote THEN <<Quote, Quote>> ELSE <<Head(s)>>)
         \o EscapeQuotes(Tail(s))

\* The server's reading of the inside of a quoted literal: '' is one quote.
RECURSIVE UnescapeQuotes(_)
UnescapeQuotes(s) ==
    IF Len(s) = 0 THEN <<>>
    ELSE IF Len(s) >= 2 /\ s[1] = Quote /\ s[2] = Quote
         THEN <<Quote>> \o UnescapeQuotes(SubSeq(s, 3, Len(s)))
         ELSE <<Head(s)>> \o UnescapeQuotes(Tail(s))

ByteaSuffix == "::bytea"

\* str(val) after the quoting of insert_row: the text put in the VALUES list.
SqlLiteral(val) ==
    CASE val.t = "str" -> <<Quote>> \o EscapeQuotes(val.s) \o <<Quote>>
      [] val.t = "int" -> IntToStr(val.n)
      [] val.t = "bin" -> <<Quote>> \o val.s \o <<Quote, ByteaSuffix>>
      [] OTHER -> <<"N", "o", "n", "e">>

\* The value the server stores for a literal of the VALUES list.
ParseLiteral(lit) ==
    IF lit[1] = Quote
    THEN IF lit[Len(lit)] = ByteaSuffix
         THEN PyBin(SubSeq(lit, 2, Len(lit) - 2))
         ELSE PyStr(UnescapeQuotes(SubSeq(lit, 2, Len(lit) - 1)))
    ELSE PyInt(StrToInt(lit))

(***************************************************************************)
(* The live schema (information_schema.columns).  The scripts name the     *)
(* tables and their columns; the data types live in the database, so the   *)
(* type of the string columns is an input chosen in Init.                  *)
(***************************************************************************)
UserTables == {"test_images", "test_bb_labels", "images"}

TableColumns(table_name) ==
    CASE table_name = "test_images" ->
             <<"image_id", "x_res", "y_res", "image_data", "filepath">>
      [] table_name = "test_bb_labels" -> <<"class_id", "class", "image_id">>
      [] table_name = "images" -> <<"filepath", "image_data">>

ColumnType(col) ==
    CASE col \in {"image_id", "x_res", "y_res", "class_id"} -> "integer"
      [] col = "image_data" -> "bytea"
      [] col \in {"filepath", "class"} -> strType

\* tables: SELECT table_name FROM information_schema.tables
tables == UserTables

\* get_schema: the (column_name, data_type) pairs of a table
get_schema(table_name) ==
    [i \in 1..Len(TableColumns(table_name)) |->
        <<TableColumns(table_name)[i], ColumnType(TableColumns(table_name)[i])>>]

ColIndex(cols, name) == CHOOSE i \in 1..Len(cols) : cols[i] = name
HasCol(cols, name) == \E i \in 1..Len(cols) : cols[i] = name
Keys(value_dict) == {value_dict[i][1] : i \in 1..Len(value_dict)}
Lookup(value_dict, key) ==
    value_dict[CHOOSE i \in 1..Len(value_dict) : value_dict[i][1] = key][2]

(***************************************************************************)
(* _check_schema: every key must be a column; a value bound for a          *)
(* "character varying" column is wrapped in quotes in the caller's mapping.*)
(***************************************************************************)
WrapQuotes(s) ==
    LET w1 == IF s[1] # Quote THEN <<Quote>> \o s ELSE s
    IN  IF w1[Len(w1)] # Quote THEN w1 \o <<Quote>> ELSE w1

\* schema_dict = {col[0]: col[1] for col in schema}
InSchema(schema, col_name) == \E i \in 1..Len(schema) : schema[i][1] = col_name
SchemaType(schema, col_name) ==
    schema[CHOOSE i \in 1..Len(schema) : schema[i][1] = col_name][2]

RECURSIVE CheckKeys(_, _, _)
\* The loop over the keys from entry i on: the error raised and the
\* caller's mapping as the loop leaves it.
CheckKeys(schema, value_dict, i) ==
    IF i > Len(value_dict) THEN [err |-> "none", value_dict |-> value_dict]
    ELSE IF ~InSchema(schema, value_dict[i][1])
    THEN [err |-> "AssertionError", value_dict |-> value_dict]
    ELSE IF SchemaType(schema, value_dict[i][1]) # "character varying"
    THEN CheckKeys(schema, value_dict, i + 1)
    ELSE IF value_dict[i][2].t # "str"
    THEN [err |-> "TypeError", value_dict |-> value_dict]
    ELSE IF Len(value_dict[i][2].s) = 0
    THEN [err |-> "IndexError", value_dict |-> value_dict]
    ELSE CheckKeys(schema,
                   [value_dict EXCEPT ![i][2] = PyStr(WrapQuotes(value_dict[i][2].s))],
                   i + 1)

check_schema(table_name, value_dict) ==
    IF table_name \notin tables
    THEN [err |-> "AssertionError", value_dict |-> value_dict]
    ELSE CheckKeys(get_schema(table_name), value_dict, 1)

(***************************************************************************)
(* The rows a statement of the open transaction sees.                      *)
(***************************************************************************)
RECURSIVE TxRows(_, _)
TxRows(pending, table_name) ==
    IF Len(pending) = 0 THEN <<>>
    ELSE (IF Head(pending).table = table_name THEN <<Head(pending).row>> ELSE <<>>)
         \o TxRows(Tail(pending), table_name)

Visible(table_name) == committed[table_name] \o TxRows(tx, table_name)

\* connection.commit(): the open transaction's rows become durable.
CommittedAfter(pending) ==
    [tb \in UserTables |-> committed[tb] \o TxRows(pending, tb)]

(***************************************************************************)
(* insert_row: the INSERT statement it builds, and the row the server      *)
(* stores for it.                                                          *)
(***************************************************************************)
InsertStatement(table_name, value_dict) ==
    [kind |-> "INSERT", table |-> table_name,
     cols |-> [i \in 1..Len(value_dict) |-> value_dict[i][1]],
     vals |-> [i \in 1..Len(value_dict) |-> SqlLiteral(value_dict[i][2])]]

\* The row of an INSERT: the listed columns from their literals, the serial
\* column from its sequence, every other column NULL.
StoredRow(stmt, serial) ==
    LET cols == TableColumns(stmt.table)
    IN  [i \in 1..Len(cols) |->
            IF HasCol(stmt.cols, cols[i])
            THEN ParseLiteral(stmt.vals[ColIndex(stmt.cols, cols[i])])
            ELSE IF stmt.table = "test_images" /\ cols[i] = "image_id"
            THEN PyInt(serial)
            ELSE PyNone]

UsesSerial(stmt) == stmt.table = "test_images" /\ ~HasCol(stmt.cols, "image_id")

\* The outcome of insert_row(table_name, value_dict).
InsertRowResult(table_name, value_dict) ==
    LET chk == check_schema(table_name, value_dict)
    IN  IF chk.err # "none"
        THEN [err |-> chk.err, value_dict |-> chk.value_dict, stmts |-> <<>>]
        ELSE [err |-> "none", value_dict |-> chk.value_dict,
              stmts |-> <<InsertStatement(table_name, chk.value_dict)>>]

RECURSIVE Execute(_, _, _)
\* The transaction and the serial after the statements of a call.
Execute(stmts, pending, serial) ==
    IF Len(stmts) = 0 THEN [tx |-> pending, serial |-> serial]
    ELSE LET st == Head(stmts)
             sq == IF UsesSerial(st) THEN serial + 1 ELSE serial
         IN  Execute(Tail(stmts),
                     Append(pending, [table |-> st.table, row |-> StoredRow(st, sq)]),
                     sq)

NoOp == [op |-> "init", err |-> "none", table |-> "", value_dict |-> <<>>,
         after |-> <<>>, stmts |-> <<>>, filter_phase |-> <<>>, commits |-> 0,
         attempted |-> 0, ret |-> 0, arg |-> <<>>, omitted |-> FALSE,
         miss |-> FALSE, format_type |-> "", pair |-> <<>>,
         label_column_names |-> <<>>]

insert_row(table_name, value_dict) ==
    LET res == InsertRowResult(table_name, value_dict)
        ex == Execute(res.stmts, tx, image_id_seq)
    IN  /\ calls' = calls + 1
        /\ tx' = ex.tx
        /\ image_id_seq' = ex.serial
        /\ last' = [NoOp EXCEPT !.op = "insert_row", !.err = res.err,
                                !.table = table_name, !.value_dict = value_dict,
                                !.after = res.value_dict, !.stmts = res.stmts]
        /\ UNCHANGED <<strType, localFiles, committed, tmpTables,
                       uncommitted_image_paths, join_filter_default, records,
                       outFiles, testOutput>>

(***************************************************************************)
(* commit: connection.commit(), then the pending uploads in order.         *)
(***************************************************************************)
\* _upload_image reads the local file; open() raises when it is missing.
UploadFails(entry) == entry[1] \notin localFiles

\* The bytes of a local file.
FileContent(path) == <<"#">> \o path

\* The row _upload_image inserts into the images table.
UploadRow(entry) == <<PyStr(entry[1]), PyBin(FileContent(entry[1]))>>

RECURSIVE FlushSkipping(_, _, _)
\* A flush loop that goes on to the next entry after a failed upload.
FlushSkipping(queue, i, uploaded) ==
    IF i > Len(queue)
    THEN [err |-> "none", uploaded |-> uploaded, attempted |-> Len(queue),
          queue |-> <<>>]
    ELSE IF UploadFails(queue[i])
    THEN [FlushSkipping(queue, i + 1, uploaded) EXCEPT !.err = "FileNotFoundError"]
    ELSE FlushSkipping(queue, i + 1, Append(uploaded, UploadRow(queue[i])))

RECURSIVE Flush(_, _, _)
\* The flush loop from entry i on: the rows uploaded (each made durable by
\* the connection.commit() of its _upload_image), the number of entries
\* whose upload was attempted, the error raised and the queue left.
Flush(queue, i, uploaded) ==
    IF i > Len(queue)
    THEN [err |-> "none", uploaded |-> uploaded, attempted |-> Len(queue),
          queue |-> <<>>]
    ELSE IF UploadFails(queue[i])
    THEN [err |-> "FileNotFoundError", uploaded |-> uploaded, attempted |-> i,
          queue |-> queue]
    ELSE Flush(queue, i + 1, Append(uploaded, UploadRow(queue[i])))

CommitResult(queue) == Flush(queue, 1, <<>>)

commit ==
    LET res == CommitResult(uncommitted_image_paths)
        durable == CommittedAfter(tx)
    IN  /\ calls' = calls + 1
        /\ committed' = [durable EXCEPT !["images"] = @ \o res.uploaded]
        /\ tx' = <<>>
        /\ uncommitted_image_paths' = res.queue
        /\ last' = [NoOp EXCEPT !.op = "commit", !.err = res.err,
                                !.commits = 1 + Len(res.uploaded),
                                !.attempted = res.attempted,
                                !.arg = uncommitted_image_paths]
        /\ UNCHANGED <<strType, localFiles, image_id_seq, tmpTables,
                       join_filter_default, records, outFiles, testOutput>>

(***************************************************************************)
(* insert_row_with_image                                                   *)
(***************************************************************************)
\* A check that lets every path through.
isfile_any(path) == TRUE

isfile(path) == path \in localFiles

\* value_dict["image_data"] = ...: replaces the entry or adds it at the end.
SetKey(value_dict, key, val) ==
    IF key \in Keys(value_dict)
    THEN [i \in 1..Len(value_dict) |->
             IF value_dict[i][1] = key THEN <<key, val>> ELSE value_dict[i]]
    ELSE Append(value_dict, <<key, val>>)

\* SELECT max(image_id_col) FROM table, "or 0".
RECURSIVE MaxOf(_, _)
MaxOf(rows, k) ==
    IF Len(rows) = 0 THEN 0
    ELSE LET m == MaxOf(Tail(rows), k)
             v == IF Head(rows)[k].t = "int" THEN Head(rows)[k].n ELSE 0
         IN  IF v > m THEN v ELSE m

\* The outcome of insert_row_with_image(table_name, value_dict): the error
\* raised, the statements executed, whether connection.commit() was reached
\* and the identifier returned.
InsertRowWithImageResult(table_name, value_dict) ==
    IF "filepath" \notin Keys(value_dict)
    THEN [err |-> "AssertionError", value_dict |-> value_dict, stmts |-> <<>>,
          commits |-> 0]
    ELSE IF ~isfile(Lookup(value_dict, "filepath").s)
    THEN [err |-> "AssertionError", value_dict |-> value_dict, stmts |-> <<>>,
          commits |-> 0]
    ELSE LET binary_data == FileContent(Lookup(value_dict, "filepath").s)
             res == InsertRowResult(table_name,
                                    SetKey(value_dict, "image_data", PyBin(binary_data)))
         IN  [err |-> res.err, value_dict |-> res.value_dict, stmts |-> res.stmts,
              commits |-> IF res.err = "none" THEN 1 ELSE 0]

insert_row_with_image(table_name, value_dict) ==
    LET res == InsertRowWithImageResult(table_name, value_dict)
        ex == Execute(res.stmts, tx, image_id_seq)
        image_id == MaxOf(committed[table_name] \o TxRows(ex.tx, table_name),
                          ColIndex(TableColumns(table_name), "image_id"))
    IN  /\ calls' = calls + 1
        /\ image_id_seq' = ex.serial
        /\ IF res.commits > 0
           THEN committed' = CommittedAfter(ex.tx) /\ tx' = <<>>
           ELSE committed' = committed /\ tx' = ex.tx
        /\ last' = [NoOp EXCEPT !.op = "insert_row_with_image", !.err = res.err,
                                !.table = table_name, !.value_dict = value_dict,
                                !.after = res.value_dict, !.stmts = res.stmts,
                                !.commits = res.commits,
                                !.ret = IF res.err = "none" THEN image_id ELSE 0]
        /\ UNCHANGED <<strType, localFiles, tmpTables, uncommitted_image_paths,
                       join_filter_default, records, outFiles, testOutput>>

(***************************************************************************)
(* _download_image                                                         *)
(***************************************************************************)
\* The parameters of _download_image besides self.
DownloadImageParams == 1

\* cursor.fetchone() of SELECT * FROM test_images WHERE filepath = %s over
\* the rows given: <<>> for None, else <<row>>.
\* A lookup without its WHERE clause.
FetchFirst(rows, remote_filename) == IF Len(rows) = 0 THEN <<>> ELSE <<Head(rows)>>

RECURSIVE FetchOne(_, _)
FetchOne(rows, remote_filename) ==
    IF Len(rows) = 0 THEN <<>>
    ELSE IF Head(rows)[ColIndex(TableColumns("test_images"), "filepath")]
              = PyStr(remote_filename)
         THEN <<Head(rows)>>
         ELSE FetchOne(Tail(rows), remote_filename)

\* A call of _download_image with the positional arguments args: the error
\* raised, whether the miss was printed, and the record appended.
DownloadImageResult(args, rows) ==
    IF Len(args) # DownloadImageParams
    THEN [err |-> "TypeError", miss |-> FALSE, written |-> <<>>]
    ELSE LET row == FetchOne(rows, args[1])
         IN  [err |-> "none", miss |-> (row = <<>>), written |-> row]

download_image(remote_filename) ==
    LET res == DownloadImageResult(<<remote_filename>>, Visible("test_images"))
    IN  /\ calls' = calls + 1
        /\ testOutput' = testOutput \o res.written
        /\ last' = [NoOp EXCEPT !.op = "_download_image", !.err = res.err,
                                !.arg = remote_filename, !.miss = res.miss]
        /\ UNCHANGED <<strType, localFiles, committed, tx, image_id_seq, tmpTables,
                       uncommitted_image_paths, join_filter_default, records,
                       outFiles>>

(***************************************************************************)
(* _download_data_yolo                                                     *)
(***************************************************************************)
NewLine == "\n"

\* str(value)
StrOf(val) ==
    CASE val.t = "str" -> val.s
      [] val.t = "int" -> IntToStr(val.n)
      [] val.t = "bin" -> <<"<memory>">>
      [] OTHER -> <<"N", "o", "n", "e">>

\* " ".join(parts)
RECURSIVE JoinSpace(_)
JoinSpace(parts) ==
    IF Len(parts) = 0 THEN <<>>
    ELSE IF Len(parts) = 1 THEN parts[1]
    ELSE parts[1] \o <<" ">> \o JoinSpace(Tail(parts))

\* One row's label line, without its newline.
LabelOf(row, cols, label_column_names) ==
    JoinSpace([i \in 1..Len(label_column_names) |->
                  StrOf(row[ColIndex(cols, label_column_names[i])])])

\* path.split(".")[-1]
RECURSIVE LastSegment(_)
LastSegment(s) ==
    IF \A i \in 1..Len(s) : s[i] # "." THEN s
    ELSE LastSegment(Tail(s))

\* An ordered dictionary as the sequence of its <<key, value>> entries.
DictHas(d, key) == \E i \in 1..Len(d) : d[i][1] = key
DictAdd(d, key, val) ==
    IF DictHas(d, key)
    THEN [i \in 1..Len(d) |-> IF d[i][1] = key THEN <<key, d[i][2] \o val>> ELSE d[i]]
    ELSE Append(d, <<key, val>>)

RECURSIVE GroupRows(_, _, _, _, _, _)
\* The grouping loop: image_remote_filepaths and label_dict after the rows.
GroupRows(rows, cols, label_column_names, image_id, paths, labels) ==
    IF Len(rows) = 0 THEN [err |-> "none", paths |-> paths, labels |-> labels]
    ELSE IF ~HasCol(cols, image_id) \/ ~HasCol(cols, "filepath")
    THEN [err |-> "KeyError", paths |-> paths, labels |-> labels]
    ELSE LET row == Head(rows)
             image_id_val == row[ColIndex(cols, image_id)]
             paths2 == IF DictHas(paths, image_id_val) THEN paths
                       ELSE Append(paths, <<image_id_val, row[ColIndex(cols, "filepath")]>>)
             label == LabelOf(row, cols, label_column_names)
         IN  GroupRows(Tail(rows), cols, label_column_names, image_id, paths2,
                       DictAdd(labels, image_id_val, label \o <<NewLine>>))

\* open(path, "w").write(content): the file is created or overwritten.
WriteFile(fs, path, content) ==
    {f \in fs : f.path # path} \cup {[path |-> path, content |-> content]}

\* os.mkdir when the directory is absent.
MkDir(fs, name) ==
    IF \E f \in fs : f.path = <<name>> THEN fs
    ELSE fs \cup {[path |-> <<name>>, content |-> <<>>]}

RECURSIVE DownloadImages(_, _, _)
\* The image loop from entry i on: it calls _download_image with two
\* positional arguments, the destination and the remote path.
DownloadImages(paths, i, rows) ==
    IF i > Len(paths) THEN [err |-> "none", written |-> <<>>]
    ELSE IF paths[i][2].t # "str"
    THEN [err |-> "AttributeError", written |-> <<>>]
    ELSE LET dest == <<"images", StrOf(paths[i][1]) \o <<".">> \o LastSegment(paths[i][2].s)>>
             res == DownloadImageResult(<<dest, paths[i][2].s>>, rows)
         IN  IF res.err # "none" THEN [err |-> res.err, written |-> <<>>]
             ELSE LET rest == DownloadImages(paths, i + 1, rows)
                  IN  [err |-> rest.err, written |-> res.written \o rest.written]

RECURSIVE WriteLabels(_, _)
WriteLabels(fs, labels) ==
    IF Len(labels) = 0 THEN fs
    ELSE WriteLabels(WriteFile(fs, <<"labels", StrOf(Head(labels)[1]) \o <<".", "t", "x", "t">>>>,
                               Head(labels)[2]),
                     Tail(labels))

\* After the grouping loop g: the two directories, the image loop im, then
\* the label files.
Materialize(g, im, fs) ==
    IF g.err # "none" THEN [err |-> g.err, fs |-> fs, written |-> <<>>]
    ELSE IF im.err # "none"
    THEN [err |-> im.err, fs |-> MkDir(MkDir(fs, "images"), "labels"),
          written |-> im.written]
    ELSE [err |-> "none",
          fs |-> WriteLabels(MkDir(MkDir(fs, "images"), "labels"), g.labels),
          written |-> im.written]

AfterGrouping(g, fs, rows) == Materialize(g, DownloadImages(g.paths, 1, rows), fs)

\* The outcome of _download_data_yolo on a fetched result: the error raised,
\* the files under the output path, the records appended to testOutput.txt.
DownloadDataYoloResult(result, label_column_names, image_id, fs, rows) ==
    AfterGrouping(GroupRows(result.rows, result.cols, label_column_names, image_id,
                            <<>>, <<>>),
                  fs, rows)

\* The export applied to the rows held in records.
download_data_yolo(label_column_names) ==
    \E res \in {DownloadDataYoloResult(records, label_column_names, "image_id",
                                       outFiles, Visible("test_images"))} :
        /\ calls' = calls + 1
        /\ outFiles' = res.fs
        /\ testOutput' = testOutput \o res.written
        /\ last' = [NoOp EXCEPT !.op = "_download_data_yolo", !.err = res.err,
                                !.label_column_names = label_column_names]
        /\ UNCHANGED <<strType, localFiles, committed, tx, image_id_seq, tmpTables,
                       uncommitted_image_paths, join_filter_default, records>>

(***************************************************************************)
(* download_data and join_and_download_data.  A table name is the sequence *)
(* of the strings it is concatenated from; a statement of the filter phase *)
(* is a caller's statement (which touches none of the modelled tables) or  *)
(* the staging statement of a join.                                        *)
(***************************************************************************)
FilterStatement(id) == [kind |-> "FILTER", id |-> id]

\* DROP TABLE IF EXISTS temp; SELECT * INTO temp FROM images JOIN labels USING (image_id)
StagingStatement(temp_table_name, images_table_name, labels_table_name, image_id) ==
    [kind |-> "STAGE", temp |-> temp_table_name, images |-> images_table_name,
     labels |-> labels_table_name, using |-> image_id]

TempTableName(images_table_name, labels_table_name) ==
    images_table_name \o <<"_">> \o labels_table_name \o <<"_tmp">>

\* The columns of a JOIN ... USING (u): u, the left table's others, the right table's others.
RECURSIVE Without(_, _)
Without(cols, u) ==
    IF Len(cols) = 0 THEN <<>>
    ELSE (IF Head(cols) = u THEN <<>> ELSE <<Head(cols)>>) \o Without(Tail(cols), u)

JoinCols(lc, rc, u) == <<u>> \o Without(lc, u) \o Without(rc, u)

RECURSIVE JoinOne(_, _, _, _, _)
\* The rows a left row l joins with, in the order of the right table.
JoinOne(l, rrows, lc, rc, u) ==
    IF Len(rrows) = 0 THEN <<>>
    ELSE LET r == Head(rrows)
             jc == JoinCols(lc, rc, u)
             match == /\ l[ColIndex(lc, u)].t = "int"
                      /\ l[ColIndex(lc, u)] = r[ColIndex(rc, u)]
             row == [k \in 1..Len(jc) |->
                        IF HasCol(lc, jc[k]) THEN l[ColIndex(lc, jc[k])]
                        ELSE r[ColIndex(rc, jc[k])]]
         IN  (IF match THEN <<row>> ELSE <<>>) \o JoinOne(l, Tail(rrows), lc, rc, u)

RECURSIVE JoinRows(_, _, _, _, _)
JoinRows(lrows, rrows, lc, rc, u) ==
    IF Len(lrows) = 0 THEN <<>>
    ELSE JoinOne(Head(lrows), rrows, lc, rc, u) \o JoinRows(Tail(lrows), rrows, lc, rc, u)

\* A DROP TABLE that drops nothing.
DropNothing(tmp, name) == tmp

\* DROP TABLE: the temporary tables left.
DropTable(tmp, name) == {tb \in tmp : tb.name # name}

RECURSIVE ExecuteFilters(_, _)
\* The temporary tables after the statements of the filter phase.
ExecuteFilters(stmts, tmp) ==
    IF Len(stmts) = 0 THEN tmp
    ELSE LET st == Head(stmts)
         IN  IF st.kind = "STAGE"
             THEN ExecuteFilters(Tail(stmts),
                      DropTable(tmp, st.temp)
                      \cup {[name |-> st.temp,
                             cols |-> JoinCols(TableColumns(st.images[1]),
                                               TableColumns(st.labels[1]), st.using),
                             rows |-> JoinRows(Visible(st.images[1]), Visible(st.labels[1]),
                                               TableColumns(st.images[1]),
                                               TableColumns(st.labels[1]), st.using)]})
             ELSE ExecuteFilters(Tail(stmts), tmp)

\* SELECT * FROM table_name, with cursor.description.
SelectAll(table_name, durable, tmp) ==
    IF Len(table_name) = 1
    THEN [cols |-> TableColumns(table_name[1]), rows |-> durable[table_name[1]]]
    ELSE LET tb == CHOOSE x \in tmp : x.name = table_name
         IN  [cols |-> tb.cols, rows |-> tb.rows]

\* The fetch and materialize phases of download_data, after a commit that
\* left base and the rows fetched.
FetchAndExport(base, fetched, y, label_column_names, format_type) ==
    IF base.err # "none" THEN base
    ELSE IF \E i \in 1..Len(label_column_names) :
               ~HasCol(fetched.cols, label_column_names[i])
    THEN [base EXCEPT !.err = "AssertionError"]
    ELSE IF format_type # "yolo" THEN base
    ELSE [base EXCEPT !.err = y.err, !.records = fetched, !.fs = y.fs,
                      !.written = y.written]

FetchPhase(base, fetched, label_column_names, format_type, image_id) ==
    FetchAndExport(base, fetched,
                   DownloadDataYoloResult(fetched, label_column_names, image_id,
                                          outFiles, base.committed["test_images"]),
                   label_column_names, format_type)

\* The filter phase of download_data and its commit(): the state they leave.
FilterPhase(tmp, flush, filter_sql) ==
    [err |-> flush.err,
     committed |-> [CommittedAfter(tx) EXCEPT !["images"] = @ \o flush.uploaded],
     tmp |-> tmp, queue |-> flush.queue, records |-> records, fs |-> outFiles,
     written |-> <<>>, filter_phase |-> filter_sql,
     commits |-> 1 + Len(flush.uploaded)]

AfterFilterPhase(base, table_name, label_column_names, format_type, image_id) ==
    FetchPhase(base,
               IF base.err = "none" THEN SelectAll(table_name, base.committed, base.tmp)
               ELSE [cols |-> <<>>, rows |-> <<>>],
               label_column_names, format_type, image_id)

\* The outcome of download_data: the error raised and the state it leaves.
DownloadDataResult(table_name, label_column_names, format_type, image_id, filter_sql) ==
    AfterFilterPhase(FilterPhase(ExecuteFilters(filter_sql, tmpTables),
                                 CommitResult(uncommitted_image_paths), filter_sql),
                     table_name, label_column_names, format_type, image_id)

download_data(table_name, label_column_names, format_type) ==
    \E res \in {DownloadDataResult(table_name, label_column_names, format_type,
                                   "image_id", <<>>)} :
        /\ calls' = calls + 1
        /\ committed' = res.committed
        /\ tx' = <<>>
        /\ tmpTables' = res.tmp
        /\ uncommitted_image_paths' = res.queue
        /\ records' = res.records
        /\ outFiles' = res.fs
        /\ testOutput' = testOutput \o res.written
        /\ last' = [NoOp EXCEPT !.op = "download_data", !.err = res.err,
                                !.pair = <<table_name>>,
                                !.format_type = format_type,
                                !.label_column_names = label_column_names,
                                !.filter_phase = res.filter_phase,
                                !.commits = res.commits, !.omitted = TRUE]
        /\ UNCHANGED <<strType, localFiles, image_id_seq, join_filter_default>>

\* The end of join_and_download_data after a download_data that returned
\* d: DROP TABLE and commit() when it raised nothing.
DropAndCommit(d, flush, temp_table_name) ==
    IF d.err # "none" THEN d
    ELSE [d EXCEPT !.err = flush.err,
                   !.tmp = DropTable(d.tmp, temp_table_name),
                   !.committed = [d.committed EXCEPT !["images"] = @ \o flush.uploaded],
                   !.queue = flush.queue,
                   !.commits = d.commits + 1 + Len(flush.uploaded)]

JoinDownload(d, temp_table_name) == DropAndCommit(d, CommitResult(d.queue), temp_table_name)

\* The outcome of join_and_download_data on the list object filter_sql, with
\* the staging statement appended to it.
JoinAndDownloadResult(images_table_name, labels_table_name, label_column_names, format_type, image_id, filter_sql) ==
    JoinDownload(
        DownloadDataResult(TempTableName(images_table_name, labels_table_name),
                           label_column_names, format_type, image_id,
                           Append(filter_sql,
                                  StagingStatement(
                                      TempTableName(images_table_name, labels_table_name),
                                      images_table_name, labels_table_name, image_id))),
        TempTableName(images_table_name, labels_table_name))

\* filter_sql is <<>> with omitted TRUE when the caller leaves it out, else
\* a list the caller has just built.
join_and_download_data(images_table_name, labels_table_name, label_column_names, format_type, omitted, filter_sql) ==
    \E res \in {JoinAndDownloadResult(images_table_name, labels_table_name,
                                      label_column_names, format_type, "image_id",
                                      IF omitted THEN join_filter_default ELSE filter_sql)} :
        /\ calls' = calls + 1
        /\ join_filter_default' = IF omitted THEN res.filter_phase ELSE join_filter_default
        /\ committed' = res.committed
        /\ tx' = <<>>
        /\ tmpTables' = res.tmp
        /\ uncommitted_image_paths' = res.queue
        /\ records' = res.records
        /\ outFiles' = res.fs
        /\ testOutput' = testOutput \o res.written
        /\ last' = [NoOp EXCEPT !.op = "join_and_download_data", !.err = res.err,
                                !.format_type = format_type,
                                !.pair = <<images_table_name, labels_table_name>>,
                                !.arg = filter_sql, !.omitted = omitted,
                                !.label_column_names = label_column_names,
                                !.filter_phase = res.filter_phase,
                                !.commits = res.commits]
        /\ UNCHANGED <<strType, localFiles, image_id_seq>>

(***************************************************************************)
(* Inputs.                                                                 *)
(***************************************************************************)
Chars == {"a", Quote}
Strings == UNION {[1..n -> Chars] : n \in 0..MaxStrLen}

P1 == <<"p", ".", "j">>
P2 == <<"q", ".", "j">>
P3 == <<"r", ".", "g">>

StrTypes == {"text", "character varying"}

EmptyDb == [tb \in UserTables |-> <<>>]

InitObject ==
    /\ committed = EmptyDb
    /\ tx = <<>>
    /\ image_id_seq = 0
    /\ tmpTables = {}
    /\ uncommitted_image_paths = <<>>
    /\ join_filter_default = <<>>
    /\ records = [cols |-> <<>>, rows |-> <<>>]
    /\ outFiles = {}
    /\ testOutput = <<>>
    /\ calls = 0
    /\ last = NoOp

(***************************************************************************)
(* Spec: one PostgresDatabase object driven by a caller.                   *)
(***************************************************************************)
IMAGE_WIDTH == 1280
IMAGE_HEIGHT == 720

ImageDict(p) == <<<<"x_res", PyInt(IMAGE_WIDTH)>>, <<"y_res", PyInt(IMAGE_HEIGHT)>>,
                  <<"filepath", PyStr(p)>>>>
ImageDicts == {ImageDict(P1), ImageDict(P2), <<<<"x_res", PyInt(IMAGE_WIDTH)>>>>}

LabelDict(c, name, id) ==
    <<<<"class_id", PyInt(c)>>, <<"class", PyStr(name)>>, <<"image_id", PyInt(id)>>>>
LabelDicts == {LabelDict(1, <<"c">>, 1), LabelDict(0, <<"p">>, 2),
               <<<<"class_id", PyInt(1)>>, <<"bogus", PyInt(1)>>>>}

JoinLabelColumns == {<<"class_id", "image_id">>, <<"class_id", "bogus">>}
Formats == {"yolo", "coco"}
FilterLists == {<<FilterStatement("f1")>>}
DownloadTables == {<<"test_images">>, <<"test_bb_labels">>}

Init ==
    /\ strType \in StrTypes
    /\ localFiles = {P1}
    /\ InitObject

Next ==
    \/ calls < MaxOps /\ \E vd \in LabelDicts : insert_row("test_bb_labels", vd)
    \/ calls < MaxOps /\ \E vd \in ImageDicts : insert_row_with_image("test_images", vd)
    \/ calls < MaxOps /\ commit
    \/ calls < MaxOps /\ \E p \in {P1, P2} : download_image(p)
    \/ calls < MaxOps /\ \E tb \in DownloadTables : download_data(tb, <<"image_id">>, "yolo")
    \/ calls < MaxOps /\ \E lc \in JoinLabelColumns, f \in Formats :
           join_and_download_data(<<"test_images">>, <<"test_bb_labels">>, lc, f, TRUE, <<>>)
    \/ calls < MaxOps /\ \E lc \in JoinLabelColumns, f \in Formats, fl \in FilterLists :
           join_and_download_data(<<"test_images">>, <<"test_bb_labels">>, lc, f, FALSE, fl)

Spec == Init /\ [][Next]_vars

(***************************************************************************)
(* SpecInsert: insert_row and commit over every small values mapping for   *)
(* test_bb_labels.                                                         *)
(***************************************************************************)
MaxInsertOps == 2

InsertKeys == {"class_id", "class", "bogus"}
InsertValues(key) ==
    IF key = "class_id" THEN {PyInt(1), PyInt(12)}
    ELSE IF key = "class" THEN {PyStr(s) : s \in Strings}
    ELSE {PyInt(1)}
InsertPairs == UNION {{<<k, v>> : v \in InsertValues(k)} : k \in InsertKeys}
\* The mappings of one or two entries, in either order of their keys.
InsertDicts ==
    {<<p>> : p \in InsertPairs}
    \cup {<<pq[1], pq[2]>> :
             pq \in {x \in InsertPairs \X InsertPairs : x[1][1] # x[2][1]}}
InsertTables == {"test_bb_labels", "no_such_table"}

InitInsert ==
    /\ strType \in StrTypes
    /\ localFiles = {P1}
    /\ InitObject

NextInsert ==
    \/ calls < MaxInsertOps /\ \E tb \in InsertTables, vd \in InsertDicts : insert_row(tb, vd)
    \/ calls < MaxInsertOps /\ commit

SpecInsert == InitInsert /\ [][NextInsert]_vars

(***************************************************************************)
(* SpecFlush: commit over every small pending-upload queue and every set   *)
(* of local files.                                                         *)
(***************************************************************************)
MaxFlushOps == 2

LocalPaths == {P1, P2, P3}
Triple(p) == <<p, <<"r", "/">>, p>>
Queues == UNION {[1..n -> {Triple(p) : p \in LocalPaths}] : n \in 0..MaxQueue}

InitFlush ==
    /\ strType \in StrTypes
    /\ localFiles \in SUBSET LocalPaths
    /\ committed = EmptyDb
    /\ tx = <<>>
    /\ image_id_seq = 0
    /\ tmpTables = {}
    /\ uncommitted_image_paths \in Queues
    /\ join_filter_default = <<>>
    /\ records = [cols |-> <<>>, rows |-> <<>>]
    /\ outFiles = {}
    /\ testOutput = <<>>
    /\ calls = 0
    /\ last = NoOp

NextFlush == calls < MaxFlushOps /\ commit

SpecFlush == InitFlush /\ [][NextFlush]_vars

(***************************************************************************)
(* SpecExport: _download_data_yolo over every small fetched result.        *)
(***************************************************************************)
MaxExportOps == 1

ExportCols == <<"image_id", "filepath", "class_id">>
ExportIds == {1, 2}
ExportPath(id) == IF id = 1 THEN P1 ELSE P3
ExportRows == {<<PyInt(id), PyStr(ExportPath(id)), PyInt(c)>> : id \in ExportIds, c \in {0, 7}}
ExportResults ==
    {[cols |-> ExportCols, rows |-> r] :
        r \in UNION {[1..n -> ExportRows] : n \in 0..MaxRecords}}
LabelColumnChoices == {<<"class_id">>, <<"class_id", "image_id">>}

InitExport ==
    /\ strType = "text"
    /\ localFiles = {P1, P3}
    /\ committed = EmptyDb
    /\ tx = <<>>
    /\ image_id_seq = 0
    /\ tmpTables = {}
    /\ uncommitted_image_paths = <<>>
    /\ join_filter_default = <<>>
    /\ records \in ExportResults
    /\ outFiles = {}
    /\ testOutput = <<>>
    /\ calls = 0
    /\ last = NoOp

NextExport ==
    /\ calls < MaxExportOps
    /\ \E lc \in LabelColumnChoices : download_data_yolo(lc)

SpecExport == InitExport /\ [][NextExport]_vars

(***************************************************************************)
(* Properties.                                                             *)
(***************************************************************************)
\* The step is a call of op.
Called(op) == calls' = calls + 1 /\ last'.op = op

FilepathColumn == ColIndex(TableColumns("test_images"), "filepath")

\* ---- export grouping --------------------------------------------------
RECURSIVE ExpectedLabelText(_, _, _, _)
\* The label lines of the rows with image identifier id, in row order.
ExpectedLabelText(rows, cols, label_column_names, id) ==
    IF Len(rows) = 0 THEN <<>>
    ELSE (IF Head(rows)[ColIndex(cols, "image_id")] = PyInt(id)
          THEN LabelOf(Head(rows), cols, label_column_names) \o <<NewLine>>
          ELSE <<>>)
         \o ExpectedLabelText(Tail(rows), cols, label_column_names, id)

CountRows(rows, cols, id) ==
    Cardinality({i \in 1..Len(rows) : rows[i][ColIndex(cols, "image_id")] = PyInt(id)})
CountLines(text) == Cardinality({i \in 1..Len(text) : text[i] = NewLine})

\* C1: after a "yolo" export, for every image identifier that occurs in N >= 1
\* of the fetched rows, labels/<identifier>.txt exists and holds exactly N
\* lines, each the row's label columns in the requested order joined by
\* single spaces and ended by a newline, and images/<identifier>.<ext>
\* exists.
C1_ExportGrouping ==
    last.op = "_download_data_yolo" =>
        \A id \in ExportIds :
            CountRows(records.rows, records.cols, id) >= 1 =>
                /\ \E f \in outFiles :
                       /\ f.path = <<"labels", IntToStr(id) \o <<".", "t", "x", "t">>>>
                       /\ CountLines(f.content) = CountRows(records.rows, records.cols, id)
                       /\ f.content = ExpectedLabelText(records.rows, records.cols,
                                                        last.label_column_names, id)
                /\ \E f \in outFiles :
                       f.path = <<"images", IntToStr(id) \o <<".">>
                                            \o LastSegment(ExportPath(id))>>

\* ---- insert_row -------------------------------------------------------
ValidKeys(op) ==
    /\ op.table \in tables
    /\ \A k \in Keys(op.value_dict) : HasCol(TableColumns(op.table), k)

\* Every string the caller passed is what the row holds in that column.
StringsRoundTrip(value_dict, table_name, row) ==
    \A i \in 1..Len(value_dict) :
        value_dict[i][2].t = "str" =>
            row[ColIndex(TableColumns(table_name), value_dict[i][1])] = value_dict[i][2]

\* C2: for every table and values mapping whose keys are all columns of the
\* table, insert followed by commit adds exactly one row, and every string
\* stored in that row equals the string the caller passed, also for strings
\* with embedded quotes and for bounded character-string columns.
C2_InsertRoundTrip ==
    [][/\ (Called("insert_row") /\ ValidKeys(last')) =>
              /\ Len(tx') = Len(tx) + 1
              /\ tx'[Len(tx')].table = last'.table
              /\ StringsRoundTrip(last'.value_dict, last'.table, tx'[Len(tx')].row)
       /\ Called("commit") =>
              \A tb \in {"test_images", "test_bb_labels"} :
                  committed'[tb] = committed[tb] \o TxRows(tx, tb)]_vars

\* C7: for every existing table and values mapping with at least one key
\* that is no column of the table, insert_row fails with the schema error
\* wherever the bad key stands, no INSERT is executed, and the table holds
\* the rows it held before.
C7_UnknownColumn ==
    [][(/\ Called("insert_row")
        /\ last'.table \in tables
        /\ \E k \in Keys(last'.value_dict) : ~HasCol(TableColumns(last'.table), k))
       => /\ last'.err = "AssertionError"
          /\ last'.stmts = <<>>
          /\ tx' = tx
          /\ committed' = committed]_vars

\* ---- commit and visibility --------------------------------------------
\* C3: a row written by insert_row becomes part of the committed database
\* only by a call of commit(); no other operation makes it durable.
C3_DeferredVisibility ==
    [][committed'["test_bb_labels"] # committed["test_bb_labels"]
       => last'.op = "commit"]_vars

\* C4: every image insert queues a pending-upload triple for its local path,
\* which stays in the queue until the next commit().
C4_PendingUploadQueued ==
    (last.op = "insert_row_with_image" /\ last.err = "none") =>
        \E i \in 1..Len(uncommitted_image_paths) :
            uncommitted_image_paths[i][1] = Lookup(last.value_dict, "filepath").s

\* The first entry of the queue whose local file is missing, 0 when none is.
FirstFailure(queue) ==
    IF \E k \in 1..Len(queue) : queue[k][1] \notin localFiles
    THEN CHOOSE k \in 1..Len(queue) :
             /\ queue[k][1] \notin localFiles
             /\ \A j \in 1..(k - 1) : queue[j][1] \in localFiles
    ELSE 0

\* C5: when commit() flushes a queue of n entries and the upload of entry k
\* fails, entries k+1..n are not attempted, the error reaches the caller, and
\* the images rows of entries 1..k-1 are committed.
C5_FlushStopsAtFirstFailure ==
    [][(Called("commit") /\ FirstFailure(uncommitted_image_paths) > 0) =>
           /\ last'.err = "FileNotFoundError"
           /\ last'.attempted = FirstFailure(uncommitted_image_paths)
           /\ committed'["images"] =
                  committed["images"]
                  \o [i \in 1..(FirstFailure(uncommitted_image_paths) - 1) |->
                         <<PyStr(uncommitted_image_paths[i][1]),
                           PyBin(FileContent(uncommitted_image_paths[i][1]))>>]]_vars

\* A commit whose second or later upload failed, with entries left after it.
C5_Witness ==
    /\ last.op = "commit"
    /\ last.err = "FileNotFoundError"
    /\ last.attempted > 1
    /\ last.attempted < Len(last.arg)
    /\ Len(committed["images"]) = last.attempted - 1

\* ---- insert_row_with_image --------------------------------------------
MissingFile(op) ==
    /\ "filepath" \in Keys(op.value_dict)
    /\ Lookup(op.value_dict, "filepath").s \notin localFiles

\* C6: when the filepath entry names no existing local file,
\* insert_row_with_image fails with the missing-file error, executes no
\* INSERT, performs no commit, and the tables hold the rows they held.
C6_MissingFile ==
    [][(Called("insert_row_with_image") /\ MissingFile(last')) =>
           /\ last'.err = "AssertionError"
           /\ last'.stmts = <<>>
           /\ last'.commits = 0
           /\ tx' = tx
           /\ committed' = committed]_vars

\* A failed image insert that left an earlier insert_row pending.
C6_Witness ==
    /\ last.op = "insert_row_with_image"
    /\ MissingFile(last)
    /\ last.err = "AssertionError"
    /\ Len(tx) > 0

\* ---- join_and_download_data -------------------------------------------
OwnTempTable == last.pair[1] \o <<"_">> \o last.pair[2] \o <<"_tmp">>
OwnStaging ==
    [kind |-> "STAGE", temp |-> OwnTempTable, images |-> last.pair[1],
     labels |-> last.pair[2], using |-> "image_id"]

\* C8: join_and_download_data stages the join in the temporary table
\* <images_table>_<labels_table>_tmp; after the export that table is dropped
\* and the drop committed; the table is in the database after the call only
\* when the export failed.
C8_TempTableLifecycle ==
    last.op = "join_and_download_data" =>
        /\ last.filter_phase[Len(last.filter_phase)] = OwnStaging
        /\ last.err = "none" => \A tb \in tmpTables : tb.name # OwnTempTable
        /\ (\E tb \in tmpTables : tb.name = OwnTempTable) =>
               last.err \in {"AssertionError", "TypeError"}

\* A join over a non-empty images and labels table that raised nothing.
C8_Witness ==
    /\ last.op = "join_and_download_data"
    /\ last.err = "none"
    /\ Len(committed["test_images"]) > 0
    /\ Len(committed["test_bb_labels"]) > 0
    /\ tmpTables = {}

\* C10: in every sequence of join_and_download_data calls, the statements of
\* a call's filter phase are the statements the caller gave that call and
\* exactly one staging statement, that of the call's own pair of tables.
C10_NoCarryOver ==
    last.op = "join_and_download_data" =>
        last.filter_phase = last.arg \o <<OwnStaging>>

\* ---- _download_image --------------------------------------------------
HasImage(remote_filename) ==
    \E i \in 1..Len(Visible("test_images")) :
        Visible("test_images")[i][FilepathColumn] = PyStr(remote_filename)

\* C9: _download_image called with a filepath no row of the images table
\* has writes nothing, reports the miss, raises nothing and leaves the
\* database as it was; a record is appended only when a matching row exists.
C9_DownloadMiss ==
    [][Called("_download_image") =>
           /\ last'.err = "none"
           /\ committed' = committed /\ tx' = tx /\ tmpTables' = tmpTables
           /\ ~HasImage(last'.arg) => (testOutput' = testOutput /\ last'.miss)
           /\ testOutput' # testOutput =>
                  (HasImage(last'.arg) /\ Len(testOutput') = Len(testOutput) + 1)]_vars

\* A miss on a table that holds an image row.
C9_Witness ==
    /\ last.op = "_download_image"
    /\ last.miss
    /\ Len(committed["test_images"]) > 0
    /\ testOutput = <<>>

====
